---- MODULE Spec2Model ----
(***************************************************************************)
(* The role database of tuf (tuf/roledb.py): the module-level dictionary   *)
(* of roles, the change tracker and the functions that act on them.        *)
(*                                                                         *)
(* A rolename is a Python string, modelled as the sequence of its          *)
(* characters, so that split('/'), join, startswith and strip are computed *)
(* and not assumed.  An exception leaving a function is the value of exc   *)
(* after the call ("None" when the call returned).                         *)
(***************************************************************************)
EXTENDS Integers, Sequences, FiniteSets, TLC

VARIABLES
  _roledb_dict,                 \* roledb.py:58   rolename -> roleinfo
  _track_changes,               \* roledb.py:60
  _unwritten_role_changes,      \* roledb.py:63   rolename -> changes entry
  _partially_written_rolenames, \* roledb.py:66
  debug,                        \* __debug__: FALSE when run with -O (asserts stripped)
  requested_track_changes,      \* history: the local _track_changes of roledb.py:98
  held,                         \* the roleinfo object the caller holds
  call,                         \* the function called last
  exc,                          \* the exception it raised, or "None"
  ret                           \* the value it returned, or "None"

vars == <<_roledb_dict, _track_changes, _unwritten_role_changes,
          _partially_written_rolenames, debug, requested_track_changes,
          held, call, exc, ret>>

store == <<_roledb_dict, _track_changes, _unwritten_role_changes,
           _partially_written_rolenames>>

-----------------------------------------------------------------------------
(* Bounds of the model. *)

\* The add_role action is offered only while fewer roles than this are stored.
MaxRoles == 5

\* Keyids are 1..MaxKeyId.
MaxKeyId == 2

-----------------------------------------------------------------------------
(* Python strings as character sequences. *)

SEP == "/"

Whitespace == {" "}

RECURSIVE split(_)
\* str.split('/'): '' -> [''], 'a/b' -> ['a', 'b'], 'a/' -> ['a', ''].
split(s) ==
  IF s = <<>> THEN << <<>> >>
  ELSE LET rest == split(Tail(s))
       IN  IF Head(s) = SEP THEN << <<>> >> \o rest
           ELSE << <<Head(s)>> \o Head(rest) >> \o Tail(rest)

RECURSIVE join(_)
\* '/'.join(parts)
join(parts) ==
  IF parts = <<>> THEN <<>>
  ELSE IF Len(parts) = 1 THEN parts[1]
  ELSE parts[1] \o <<SEP>> \o join(Tail(parts))

\* parts[:-1]
butlast(parts) == SubSeq(parts, 1, Len(parts) - 1)

startswith(s, prefix) ==
  Len(prefix) <= Len(s) /\ SubSeq(s, 1, Len(prefix)) = prefix

endswith(s, suffix) ==
  Len(suffix) <= Len(s) /\ SubSeq(s, Len(s) - Len(suffix) + 1, Len(s)) = suffix

RECURSIVE lstrip(_)
lstrip(s) ==
  IF s # <<>> /\ Head(s) \in Whitespace THEN lstrip(Tail(s)) ELSE s

RECURSIVE rstrip(_)
rstrip(s) ==
  IF s # <<>> /\ s[Len(s)] \in Whitespace THEN rstrip(butlast(s)) ELSE s

strip(s) == rstrip(lstrip(s))

\* '/' in rolename
contains_sep(s) == \E i \in 1..Len(s) : s[i] = SEP

-----------------------------------------------------------------------------
(* Dictionaries. *)

EmptyDict == << >>

Put(d, k, v) == [x \in DOMAIN d \cup {k} |-> IF x = k THEN v ELSE d[x]]

Del(d, ks) == [x \in DOMAIN d \ ks |-> d[x]]

NoExc == "None"

-----------------------------------------------------------------------------
(* Name checks. *)

\* _validate_rolename with a fault: the end of the rolename is not looked at.
_validate_rolename_start_only(rolename) ==
  IF rolename = <<>> THEN "InvalidNameError"
  ELSE IF rolename # lstrip(rolename) THEN "InvalidNameError"
  ELSE IF startswith(rolename, <<SEP>>) THEN "InvalidNameError"
  ELSE NoExc

_validate_rolename(rolename) ==
  IF rolename = <<>> THEN "InvalidNameError"
  ELSE IF rolename # strip(rolename) THEN "InvalidNameError"
  ELSE IF startswith(rolename, <<SEP>>) \/ endswith(rolename, <<SEP>>)
       THEN "InvalidNameError"
  ELSE NoExc

_check_rolename(db, rolename) ==
  IF _validate_rolename(rolename) # NoExc THEN _validate_rolename(rolename)
  ELSE IF rolename \notin DOMAIN db THEN "UnknownRoleError"
  ELSE NoExc

\* 'a/b/c/d' --> 'a/b/c'
parent_of(rolename) == join(butlast(split(rolename)))

-----------------------------------------------------------------------------
(* add_role *)

\* add_role with a fault: the role is stored before the parent is looked for.
add_role_outcome_stores_first(db, rolename, roleinfo, require_parent) ==
  IF _validate_rolename(rolename) # NoExc
  THEN [db |-> db, exc |-> _validate_rolename(rolename)]
  ELSE IF rolename \in DOMAIN db
  THEN [db |-> db, exc |-> "RoleAlreadyExistsError"]
  ELSE IF require_parent /\ contains_sep(rolename)
          /\ parent_of(rolename) \notin DOMAIN db
  THEN [db |-> Put(db, rolename, roleinfo), exc |-> "Error"]
  ELSE [db |-> Put(db, rolename, roleinfo), exc |-> "NameError"]

\* add_role with a fault: no test for a role of that name being stored already.
add_role_outcome_overwrites(db, rolename, roleinfo, require_parent) ==
  IF _validate_rolename(rolename) # NoExc
  THEN [db |-> db, exc |-> _validate_rolename(rolename)]
  ELSE IF require_parent /\ contains_sep(rolename)
          /\ parent_of(rolename) \notin DOMAIN db
  THEN [db |-> db, exc |-> "Error"]
  ELSE [db |-> Put(db, rolename, roleinfo), exc |-> "NameError"]

add_role_outcome(db, rolename, roleinfo, require_parent) ==
  IF _validate_rolename(rolename) # NoExc
  THEN [db |-> db, exc |-> _validate_rolename(rolename)]
  ELSE IF rolename \in DOMAIN db
  THEN [db |-> db, exc |-> "RoleAlreadyExistsError"]
  ELSE IF require_parent /\ contains_sep(rolename)
          /\ parent_of(rolename) \notin DOMAIN db
  THEN [db |-> db, exc |-> "Error"]
  \* line 209 stores the role; line 211 then evaluates the dict display
  \* {created: True, touched: False}, whose keys are names bound nowhere.
  ELSE [db |-> Put(db, rolename, roleinfo), exc |-> "NameError"]

add_role(rolename, roleinfo, require_parent) ==
  LET out == add_role_outcome(_roledb_dict, rolename, roleinfo, require_parent)
  IN  /\ call' = "add_role"
      /\ Cardinality(DOMAIN out.db) <= MaxRoles
      /\ _roledb_dict' = out.db
      /\ exc' = out.exc
      /\ ret' = "None"
      /\ UNCHANGED <<_track_changes, _unwritten_role_changes,
                     _partially_written_rolenames, debug, requested_track_changes, held>>

-----------------------------------------------------------------------------
(* update_roleinfo and the change tracker. *)

_generate_role_changes_entry(created) ==
  [created |-> created,
   touched |-> FALSE,
   targets_added |-> <<>>,
   targets_removed |-> <<>>,
   delegations_made |-> <<>>,
   delegations_removed |-> <<>>,
   delegation_keys_added |-> EmptyDict,
   delegation_keys_revoked |-> EmptyDict,
   delegation_thresholds_modified |-> EmptyDict,
   delegation_paths_added |-> EmptyDict,
   delegation_paths_removed |-> EmptyDict,
   delegation_path_hash_prefixes_added |-> EmptyDict,
   delegation_path_hash_prefixes_removed |-> EmptyDict]

\* 'if given_dict in key': the left operand is a dict and the right one a str,
\* and str.__contains__ accepts only a str.
_retrieve_list_from_dict(given_dict, key) ==
  [exc |-> "TypeError", val |-> <<>>]

\* The sum of two sets, set(changes_list) + set(list_to_add), is no operation
\* of set; the result would be bound to the local name changes_list only.
_modify_changes_list(changes_list, list_to_add, list_to_remove) ==
  [exc |-> "TypeError"]

_update_unwritten_role_changes(changes, db, rolename, new_roleinfo) ==
  LET previous_roleinfo == db[rolename]
      previous_paths == _retrieve_list_from_dict(previous_roleinfo, "paths")
      new_paths == _retrieve_list_from_dict(new_roleinfo, "paths")
  IN  IF previous_paths.exc # NoExc
      THEN [changes |-> changes, exc |-> previous_paths.exc]
      ELSE IF new_paths.exc # NoExc
      THEN [changes |-> changes, exc |-> new_paths.exc]
      ELSE [changes |-> changes,
            exc |-> _modify_changes_list(<<>>, new_paths.val, previous_paths.val).exc]

update_roleinfo_outcome(db, track, changes, rolename, roleinfo) ==
  IF _validate_rolename(rolename) # NoExc
  THEN [db |-> db, changes |-> changes, exc |-> _validate_rolename(rolename)]
  ELSE IF rolename \notin DOMAIN db
  THEN [db |-> db, changes |-> changes, exc |-> "UnknownRoleError"]
  ELSE LET rec == IF track
                  THEN _update_unwritten_role_changes(changes, db, rolename, roleinfo)
                  ELSE [changes |-> changes, exc |-> NoExc]
       IN  IF rec.exc # NoExc
           THEN [db |-> db, changes |-> rec.changes, exc |-> rec.exc]
           ELSE [db |-> Put(db, rolename, roleinfo), changes |-> rec.changes,
                 exc |-> NoExc]

update_roleinfo(rolename, roleinfo) ==
  LET out == update_roleinfo_outcome(_roledb_dict, _track_changes,
                                     _unwritten_role_changes, rolename, roleinfo)
  IN  /\ call' = "update_roleinfo"
      /\ _roledb_dict' = out.db
      /\ _unwritten_role_changes' = out.changes
      /\ exc' = out.exc
      /\ ret' = "None"
      /\ UNCHANGED <<_track_changes, _partially_written_rolenames, debug,
                     requested_track_changes, held>>

list_changed_rolenames ==
  /\ call' = "list_changed_rolenames"
  /\ exc' = NoExc
  /\ ret' = DOMAIN _unwritten_role_changes
  /\ UNCHANGED <<store, debug, requested_track_changes, held>>

\* 'assert _track_changes' raises unless the interpreter runs with -O.
assert_track_changes(dbg, track) ==
  IF dbg /\ ~track THEN "AssertionError" ELSE NoExc

touch_role_outcome(dbg, track, changes, rolename, value) ==
  IF assert_track_changes(dbg, track) # NoExc
  THEN [changes |-> changes, exc |-> assert_track_changes(dbg, track)]
  ELSE IF rolename \notin DOMAIN changes /\ value = FALSE
  THEN [changes |-> changes, exc |-> NoExc]
  ELSE LET entered == IF rolename \notin DOMAIN changes
                      THEN Put(changes, rolename, _generate_role_changes_entry(FALSE))
                      ELSE changes
       IN  [changes |-> [entered EXCEPT ![rolename].touched = value],
            exc |-> NoExc]

touch_role(rolename, value) ==
  LET out == touch_role_outcome(debug, _track_changes, _unwritten_role_changes,
                                rolename, value)
  IN  /\ call' = "touch_role"
      /\ _unwritten_role_changes' = out.changes
      /\ exc' = out.exc
      /\ ret' = "None"
      /\ UNCHANGED <<_roledb_dict, _track_changes, _partially_written_rolenames,
                     debug, requested_track_changes, held>>

\* '_unwritten_role_changes = {}' in a function with no global statement binds
\* a local name; the module's dictionary is the one it was.
clear_unwritten_changes_after_write_outcome(changes) == changes

clear_unwritten_changes_after_write ==
  /\ call' = "clear_unwritten_changes_after_write"
  /\ _unwritten_role_changes' =
        clear_unwritten_changes_after_write_outcome(_unwritten_role_changes)
  /\ exc' = NoExc
  /\ ret' = "None"
  /\ UNCHANGED <<_roledb_dict, _track_changes, _partially_written_rolenames,
                 debug, requested_track_changes, held>>

\* The body is the expression statement '_partially_written_rolenames'.
set_partially_written_rolenames_outcome(partial, rolename_set) == partial

set_partially_written_rolenames(rolename_set) ==
  /\ call' = "set_partially_written_rolenames"
  /\ _partially_written_rolenames' =
        set_partially_written_rolenames_outcome(_partially_written_rolenames,
                                                rolename_set)
  /\ exc' = NoExc
  /\ ret' = "None"
  /\ UNCHANGED <<_roledb_dict, _track_changes, _unwritten_role_changes,
                 debug, requested_track_changes, held>>

-----------------------------------------------------------------------------
(* remove_role, remove_delegated_roles, get_rolenames, clear_roledb *)

\* list(_roledb_dict.keys()); the order of a dict's keys is not modelled.
get_rolenames_of(db) == DOMAIN db

get_delegated_rolenames_of(db, rolename) ==
  {name \in get_rolenames_of(db) : startswith(name, rolename \o <<SEP>>)}

\* remove_delegated_roles with a fault: the prefix tested lacks the '/' after the rolename.
remove_delegated_roles_outcome_no_slash(db, rolename) ==
  IF _check_rolename(db, rolename) # NoExc
  THEN [db |-> db, exc |-> _check_rolename(db, rolename)]
  ELSE [db |-> Del(db, {name \in get_rolenames_of(db) :
                          name # rolename /\ startswith(name, rolename)}),
        exc |-> NoExc]

remove_delegated_roles_outcome(db, rolename) ==
  IF _check_rolename(db, rolename) # NoExc
  THEN [db |-> db, exc |-> _check_rolename(db, rolename)]
  ELSE [db |-> Del(db, {name \in get_rolenames_of(db) :
                          startswith(name, rolename \o <<SEP>>)}),
        exc |-> NoExc]

\* remove_role with a fault: the delegates of the role are left stored.
remove_role_outcome_no_cascade(db, rolename) ==
  IF _check_rolename(db, rolename) # NoExc
  THEN [db |-> db, exc |-> _check_rolename(db, rolename)]
  ELSE [db |-> Del(db, {rolename}), exc |-> NoExc]

remove_role_outcome(db, rolename) ==
  IF _check_rolename(db, rolename) # NoExc
  THEN [db |-> db, exc |-> _check_rolename(db, rolename)]
  ELSE LET cascade == remove_delegated_roles_outcome(db, rolename)
       IN  IF cascade.exc # NoExc THEN cascade
           ELSE [db |-> Del(cascade.db, {rolename}), exc |-> NoExc]

remove_role(rolename) ==
  LET out == remove_role_outcome(_roledb_dict, rolename)
  IN  /\ call' = "remove_role"
      /\ _roledb_dict' = out.db
      /\ exc' = out.exc
      /\ ret' = "None"
      /\ UNCHANGED <<_track_changes, _unwritten_role_changes,
                     _partially_written_rolenames, debug, requested_track_changes, held>>

remove_delegated_roles(rolename) ==
  LET out == remove_delegated_roles_outcome(_roledb_dict, rolename)
  IN  /\ call' = "remove_delegated_roles"
      /\ _roledb_dict' = out.db
      /\ exc' = out.exc
      /\ ret' = "None"
      /\ UNCHANGED <<_track_changes, _unwritten_role_changes,
                     _partially_written_rolenames, debug, requested_track_changes, held>>

get_rolenames ==
  /\ call' = "get_rolenames"
  /\ exc' = NoExc
  /\ ret' = get_rolenames_of(_roledb_dict)
  /\ UNCHANGED <<store, debug, requested_track_changes, held>>

\* _roledb_dict.clear() is the whole body.
clear_roledb_outcome(db, changes, partial) ==
  [db |-> EmptyDict, changes |-> changes, partial |-> partial]

clear_roledb ==
  LET out == clear_roledb_outcome(_roledb_dict, _unwritten_role_changes,
                                  _partially_written_rolenames)
  IN  /\ call' = "clear_roledb"
      /\ _roledb_dict' = out.db
      /\ _unwritten_role_changes' = out.changes
      /\ _partially_written_rolenames' = out.partial
      /\ exc' = NoExc
      /\ ret' = "None"
      /\ UNCHANGED <<_track_changes, debug, requested_track_changes, held>>

-----------------------------------------------------------------------------
(* create_roledb_from_root_metadata *)

root == <<"r", "o", "o", "t">>

targets == <<"t", "a", "r", "g", "e", "t", "s">>

\* The orders in which a dict of these keys may be iterated.
Orders(S) ==
  {f \in [1..Cardinality(S) -> S] : \A i, j \in DOMAIN f : f[i] = f[j] => i = j}

\* Lines 115-125: the roleinfo handed to add_role for one entry of the role map.
\* Assigning a key overwrites it, so the new fields go to the left of @@.
root_roleinfo(rolename, roleinfo, root_metadata) ==
  LET r1 == IF rolename = root
            THEN [version |-> root_metadata.version,
                  expires |-> root_metadata.expires] @@ roleinfo
            ELSE roleinfo
      r2 == [signatures |-> <<>>, signing_keyids |-> {},
             compressions |-> <<"">>, partial_loaded |-> FALSE] @@ r1
  IN  IF startswith(rolename, targets)
      THEN [paths |-> EmptyDict,
            delegations |-> [keys |-> EmptyDict, roles |-> <<>>,
                             roles_type |-> "list"]] @@ r2
      ELSE r2

RECURSIVE create_loop(_, _, _)
\* Lines 114-132: the roles are added one by one; whatever add_role raises
\* leaves the function at once (tuf.Error is logged and raised again, any other
\* exception is not caught).
create_loop(db, root_metadata, order) ==
  IF order = <<>> THEN [db |-> db, exc |-> NoExc]
  ELSE LET rolename == Head(order)
           out == add_role_outcome(db, rolename,
                     root_roleinfo(rolename, root_metadata.roles[rolename],
                                   root_metadata),
                     TRUE)
       IN  IF out.exc # NoExc THEN out
           ELSE create_loop(out.db, root_metadata, Tail(order))

\* Line 107 clears the database before the first role is looked at.
create_roledb_outcome(db, root_metadata, order) ==
  create_loop(EmptyDict, root_metadata, order)

create_roledb_from_root_metadata(root_metadata, track_changes) ==
  \E order \in Orders(DOMAIN root_metadata.roles) :
    LET out == create_roledb_outcome(_roledb_dict, root_metadata, order)
    IN  /\ call' = "create_roledb_from_root_metadata"
        \* line 98: '_track_changes = track_changes' with no global statement
        \* binds a local name.
        /\ requested_track_changes' = track_changes
        /\ _track_changes' = _track_changes
        /\ _roledb_dict' = out.db
        /\ exc' = out.exc
        /\ ret' = "None"
        /\ UNCHANGED <<_unwritten_role_changes, _partially_written_rolenames,
                       debug, held>>

-----------------------------------------------------------------------------
(* signature_count_on_write and list_incomplete_unchanged_rolenames *)

\* The keys of a 'delegations' dict: {'keys': ..., 'roles': ...}.
DelegationsKeys == {<<"k", "e", "y", "s">>, <<"r", "o", "l", "e", "s">>}

\* set(sig['keyid'] for sig in signatures)
signed_keyids_of(signatures) == {signatures[i].keyid : i \in DOMAIN signatures}

\* Line 376 reads _roledb_dict[parent]['delegations'][rolename]: the parent of
\* a top-level role is '', which is never a key of the database, and a
\* 'delegations' dict has the keys 'keys' and 'roles' only.  Line 377 is the
\* expression statement 'delegated', a name bound nowhere, so no call gets to
\* the counting of lines 380-399.
signature_count_on_write_outcome(db, changes, rolename) ==
  IF _check_rolename(db, rolename) # NoExc
  THEN [exc |-> _check_rolename(db, rolename), ret |-> "None"]
  ELSE LET signing_keyids == db[rolename].signing_keyids
           parent_rolename == parent_of(rolename)
       IN  IF parent_rolename \notin DOMAIN db
           THEN [exc |-> "KeyError", ret |-> "None"]
           ELSE IF "delegations" \notin DOMAIN db[parent_rolename]
           THEN [exc |-> "KeyError", ret |-> "None"]
           ELSE IF rolename \notin DelegationsKeys
           THEN [exc |-> "KeyError", ret |-> "None"]
           ELSE [exc |-> "NameError", ret |-> "None"]

signature_count_on_write(rolename) ==
  LET out == signature_count_on_write_outcome(_roledb_dict,
                                              _unwritten_role_changes, rolename)
  IN  /\ call' = "signature_count_on_write"
      /\ exc' = out.exc
      /\ ret' = out.ret
      /\ UNCHANGED <<store, debug, requested_track_changes, held>>

RECURSIVE SetToSeq(_)
\* A list holding the members of a set, in an order that is not modelled.
SetToSeq(S) ==
  IF S = {} THEN <<>>
  ELSE LET x == CHOOSE y \in S : TRUE IN <<x>> \o SetToSeq(S \ {x})

RECURSIVE incomplete_scan_delegations(_, _, _, _)
\* Lines 423-431 for the delegations of one changed parent.  The result list
\* has no method 'add': the attribute lookup fails before its argument is
\* evaluated.
incomplete_scan_delegations(db, partial, delegs, acc) ==
  IF delegs = <<>> THEN [exc |-> NoExc, ret |-> acc]
  ELSE LET delegation == Head(delegs)
       IN  IF delegation.name \in partial
           THEN incomplete_scan_delegations(db, partial, Tail(delegs), acc)
           ELSE IF delegation.name \notin DOMAIN db
           THEN [exc |-> "KeyError", ret |-> "None"]
           ELSE LET delegated_role == db[delegation.name]
                    valid_keyids == delegation.keyids
                    signed_keyids == signed_keyids_of(delegated_role.signatures)
                    valid_signature_count ==
                      Cardinality(valid_keyids \cap signed_keyids)
                IN  IF valid_signature_count < delegation.threshold
                    THEN [exc |-> "AttributeError", ret |-> "None"]
                    ELSE incomplete_scan_delegations(db, partial, Tail(delegs), acc)

RECURSIVE incomplete_scan_parents(_, _, _, _)
\* Lines 421-422: a changed rolename need not be stored, a stored role need not
\* have delegations, and a list of delegated roles has no method 'values'.
incomplete_scan_parents(db, partial, order, acc) ==
  IF order = <<>> THEN [exc |-> NoExc, ret |-> acc]
  ELSE LET parent_rolename == Head(order)
       IN  IF parent_rolename \notin DOMAIN db
           THEN [exc |-> "KeyError", ret |-> "None"]
           ELSE IF "delegations" \notin DOMAIN db[parent_rolename]
           THEN [exc |-> "KeyError", ret |-> "None"]
           ELSE IF db[parent_rolename].delegations.roles_type = "list"
           THEN [exc |-> "AttributeError", ret |-> "None"]
           ELSE LET scan == incomplete_scan_delegations(db, partial,
                               db[parent_rolename].delegations.roles, acc)
                IN  IF scan.exc # NoExc THEN scan
                    ELSE incomplete_scan_parents(db, partial, Tail(order), scan.ret)

list_incomplete_unchanged_rolenames_outcome(dbg, track, db, changes, partial, order) ==
  IF assert_track_changes(dbg, track) # NoExc
  THEN [exc |-> assert_track_changes(dbg, track), ret |-> "None"]
  ELSE LET dirty_rolenames == DOMAIN changes
           incomplete_unchanged_rolenames ==
             SetToSeq({rolename \in partial : rolename \notin dirty_rolenames})
       IN  incomplete_scan_parents(db, partial, order,
                                   incomplete_unchanged_rolenames)

list_incomplete_unchanged_rolenames ==
  \E order \in Orders(DOMAIN _unwritten_role_changes) :
    LET out == list_incomplete_unchanged_rolenames_outcome(debug, _track_changes,
                  _roledb_dict, _unwritten_role_changes,
                  _partially_written_rolenames, order)
    IN  /\ call' = "list_incomplete_unchanged_rolenames"
        /\ exc' = out.exc
        /\ ret' = out.ret
        /\ UNCHANGED <<store, debug, requested_track_changes, held>>

-----------------------------------------------------------------------------
(* get_parent_rolename, get_all_parent_roles, get_delegated_rolenames *)

get_parent_rolename_outcome(db, rolename) ==
  IF _check_rolename(db, rolename) # NoExc
  THEN [exc |-> _check_rolename(db, rolename), ret |-> "None"]
  ELSE [exc |-> NoExc, ret |-> parent_of(rolename)]

get_parent_rolename(rolename) ==
  LET out == get_parent_rolename_outcome(_roledb_dict, rolename)
  IN  /\ call' = "get_parent_rolename"
      /\ exc' = out.exc
      /\ ret' = out.ret
      /\ UNCHANGED <<store, debug, requested_track_changes, held>>

RECURSIVE parent_roles_loop(_, _, _)
\* Lines 540-542: each next_role of the slice is appended to roles_added and
\* the sum is appended to parent_roles.
parent_roles_loop(parent_roles, roles_added, slice) ==
  IF slice = <<>> THEN parent_roles
  ELSE LET next == roles_added \o <<SEP>> \o Head(slice)
       IN  parent_roles_loop(Append(parent_roles, next), next, Tail(slice))

\* get_all_parent_roles with a fault: the slice is parts[1:], the last part included.
get_all_parent_roles_outcome_whole_slice(db, rolename) ==
  IF _check_rolename(db, rolename) # NoExc
  THEN [exc |-> _check_rolename(db, rolename), ret |-> "None"]
  ELSE LET parts == split(rolename)
       IN  [exc |-> NoExc,
            ret |-> parent_roles_loop(<<parts[1]>>, parts[1],
                                      SubSeq(parts, 2, Len(parts)))]

get_all_parent_roles_outcome(db, rolename) ==
  IF _check_rolename(db, rolename) # NoExc
  THEN [exc |-> _check_rolename(db, rolename), ret |-> "None"]
  ELSE LET parts == split(rolename)
       IN  [exc |-> NoExc,
            \* parts[1:-1]
            ret |-> parent_roles_loop(<<parts[1]>>, parts[1],
                                      SubSeq(parts, 2, Len(parts) - 1))]

get_all_parent_roles(rolename) ==
  LET out == get_all_parent_roles_outcome(_roledb_dict, rolename)
  IN  /\ call' = "get_all_parent_roles"
      /\ exc' = out.exc
      /\ ret' = out.ret
      /\ UNCHANGED <<store, debug, requested_track_changes, held>>

\* get_delegated_rolenames with a fault: the prefix tested lacks the '/' after the rolename.
get_delegated_rolenames_outcome_no_slash(db, rolename) ==
  IF _check_rolename(db, rolename) # NoExc
  THEN [exc |-> _check_rolename(db, rolename), ret |-> "None"]
  ELSE [exc |-> NoExc,
        ret |-> {name \in get_rolenames_of(db) : startswith(name, rolename)}]

\* The list returned holds each name once (the keys of a dict); its order is
\* not modelled.
get_delegated_rolenames_outcome(db, rolename) ==
  IF _check_rolename(db, rolename) # NoExc
  THEN [exc |-> _check_rolename(db, rolename), ret |-> "None"]
  ELSE [exc |-> NoExc, ret |-> get_delegated_rolenames_of(db, rolename)]

get_delegated_rolenames(rolename) ==
  LET out == get_delegated_rolenames_outcome(_roledb_dict, rolename)
  IN  /\ call' = "get_delegated_rolenames"
      /\ exc' = out.exc
      /\ ret' = out.ret
      /\ UNCHANGED <<store, debug, requested_track_changes, held>>

\* _check_rolename's UnknownRoleError is caught and answered with False; its
\* InvalidNameError is raised again.
role_exists_outcome(db, rolename) ==
  IF _check_rolename(db, rolename) = "InvalidNameError"
  THEN [exc |-> "InvalidNameError", ret |-> "None"]
  ELSE IF _check_rolename(db, rolename) = "UnknownRoleError"
  THEN [exc |-> NoExc, ret |-> FALSE]
  ELSE [exc |-> NoExc, ret |-> TRUE]

role_exists(rolename) ==
  LET out == role_exists_outcome(_roledb_dict, rolename)
  IN  /\ call' = "role_exists"
      /\ exc' = out.exc
      /\ ret' = out.ret
      /\ UNCHANGED <<store, debug, requested_track_changes, held>>

-----------------------------------------------------------------------------
(* get_roleinfo, and the roleinfo object a caller keeps hold of.           *)
(*                                                                         *)
(* held is <<>> or <<h>>; h.value is the value of the caller's object and  *)
(* h.aliases the rolenames under which the database stores that very       *)
(* object, so that a change made through the caller's reference shows in   *)
(* the database under exactly those names.                                 *)

\* The caller's object, as an argument of a call.
HeldObject(h) == [value |-> h.value, id |-> "held"]

\* _roledb_dict[rolename], as an object.
StoredObject(db, h, rolename) ==
  [value |-> db[rolename],
   id |-> IF h # <<>> /\ rolename \in h[1].aliases THEN "held" ELSE "stored"]

\* copy.deepcopy with a fault: the object itself is handed on.
deepcopy_same_object(object) == object

\* copy.deepcopy: an object equal in value that shares nothing with the given one.
deepcopy(object) == [value |-> object.value, id |-> "new"]

\* The caller builds a roleinfo of its own.
new_roleinfo(roleinfo) ==
  /\ call' = "new_roleinfo"
  /\ held' = <<[value |-> roleinfo, aliases |-> {}]>>
  /\ exc' = NoExc
  /\ ret' = "None"
  /\ UNCHANGED <<store, debug, requested_track_changes>>

\* add_role(rolename, r, require_parent) with r the object the caller holds:
\* line 209 stores copy.deepcopy(r).
add_role_held(rolename, require_parent) ==
  /\ held # <<>>
  /\ LET stored == deepcopy(HeldObject(held[1]))
         out == add_role_outcome(_roledb_dict, rolename, stored.value,
                                 require_parent)
     IN  /\ call' = "add_role"
         /\ Cardinality(DOMAIN out.db) <= MaxRoles
         /\ _roledb_dict' = out.db
         /\ held' = IF rolename \in DOMAIN out.db \ DOMAIN _roledb_dict
                       /\ stored.id = "held"
                    THEN <<[held[1] EXCEPT !.aliases = @ \cup {rolename}]>>
                    ELSE held
         /\ exc' = out.exc
         /\ ret' = "None"
         /\ UNCHANGED <<_track_changes, _unwritten_role_changes,
                        _partially_written_rolenames, debug,
                        requested_track_changes>>

get_roleinfo_outcome(db, h, rolename) ==
  IF _check_rolename(db, rolename) # NoExc
  THEN [exc |-> _check_rolename(db, rolename), ret |-> "None"]
  ELSE [exc |-> NoExc, ret |-> deepcopy(StoredObject(db, h, rolename))]

\* The caller keeps the object returned.
get_roleinfo(rolename) ==
  LET out == get_roleinfo_outcome(_roledb_dict, held, rolename)
  IN  /\ call' = "get_roleinfo"
      /\ exc' = out.exc
      /\ ret' = IF out.exc = NoExc THEN out.ret.value ELSE "None"
      /\ held' = IF out.exc # NoExc THEN held
                 ELSE IF out.ret.id = "held" THEN held
                 ELSE <<[value |-> out.ret.value,
                         aliases |-> IF out.ret.id = "stored" THEN {rolename}
                                     ELSE {}]>>
      /\ UNCHANGED <<store, debug, requested_track_changes>>

\* The caller assigns to a field of the object it holds
\* (r['threshold'] = threshold); every reference to the object sees it.
mutate_held(threshold) ==
  /\ held # <<>>
  /\ held[1].value.threshold # threshold
  /\ LET mutated == [held[1].value EXCEPT !.threshold = threshold]
     IN  /\ call' = "mutate_held"
         /\ held' = <<[held[1] EXCEPT !.value = mutated]>>
         /\ _roledb_dict' =
              [name \in DOMAIN _roledb_dict |->
                 IF name \in held[1].aliases THEN mutated
                 ELSE _roledb_dict[name]]
         /\ exc' = NoExc
         /\ ret' = "None"
         /\ UNCHANGED <<_track_changes, _unwritten_role_changes,
                        _partially_written_rolenames, debug,
                        requested_track_changes>>

-----------------------------------------------------------------------------
(* The rolenames and roleinfos the calls are made with. *)

n_a == <<"a">>

n_a_b == <<"a", "/", "b">>

n_a_c == <<"a", "/", "c">>

n_a_bc == <<"a", "/", "b", "c">>

n_a_b_c == <<"a", "/", "b", "/", "c">>

n_a_b_c_d == <<"a", "/", "b", "/", "c", "/", "d">>

ValidNames == {n_a, n_a_b, n_a_c, n_a_bc, n_a_b_c, n_a_b_c_d}

\* '', ' a', 'a ', '/a', 'a/'
InvalidNames == {<<>>, <<" ", "a">>, <<"a", " ">>, <<"/", "a">>, <<"a", "/">>}

StoreNames == ValidNames \cup InvalidNames

TouchNames == {n_a_b}

KeyIds == 1..MaxKeyId

RECURSIVE SigList(_)
\* One signature per keyid of K.
SigList(K) ==
  IF K = {} THEN <<>>
  ELSE LET k == CHOOSE x \in K : \A y \in K : x <= y
       IN  <<[keyid |-> k, sig |-> "sig"]>> \o SigList(K \ {k})

RoleInfo(keyids, threshold, signed, signing_keyids) ==
  [keyids |-> keyids, threshold |-> threshold, signatures |-> SigList(signed),
   signing_keyids |-> signing_keyids]

StoreInfos == {RoleInfo({1}, 1, {}, {}), RoleInfo(KeyIds, 2, {1}, {1})}

Init ==
  /\ _roledb_dict = EmptyDict
  /\ _track_changes = FALSE
  /\ _unwritten_role_changes = EmptyDict
  /\ _partially_written_rolenames = {}
  /\ debug \in BOOLEAN
  /\ requested_track_changes = FALSE
  /\ held = <<>>
  /\ call = "import"
  /\ exc = NoExc
  /\ ret = "None"

-----------------------------------------------------------------------------
(* Spec: the store under add, update, remove and clear. *)

Next ==
  \/ \E rolename \in StoreNames, roleinfo \in StoreInfos, require_parent \in BOOLEAN :
       add_role(rolename, roleinfo, require_parent)
  \/ \E rolename \in StoreNames, roleinfo \in StoreInfos :
       update_roleinfo(rolename, roleinfo)
  \/ \E rolename \in StoreNames : remove_role(rolename)
  \/ \E rolename \in StoreNames : remove_delegated_roles(rolename)
  \/ clear_roledb
  \/ get_rolenames

Spec == Init /\ [][Next]_vars

-----------------------------------------------------------------------------
(* SpecTrack: the bulk load and the change tracker, over fewer rolenames. *)

LoadNames == {root, targets, n_a, n_a_b}

TrackNames == LoadNames \cup {<<>>, <<"a", "/">>}

TrackInfos == {RoleInfo({1}, 1, {}, {})}

\* What root.json declares for a role: its keyids and its threshold.
RootRole(rolename) ==
  IF rolename \in {root, n_a_b}
  THEN [keyids |-> KeyIds, threshold |-> 2]
  ELSE [keyids |-> {2}, threshold |-> 1]

RootMetadatas ==
  {[roles |-> [rolename \in S |-> RootRole(rolename)],
    version |-> 3, expires |-> "2030-01-01T00:00:00Z"] : S \in SUBSET LoadNames}

NextTrack ==
  \/ \E root_metadata \in RootMetadatas, track_changes \in BOOLEAN :
       create_roledb_from_root_metadata(root_metadata, track_changes)
  \/ \E rolename \in TrackNames, roleinfo \in TrackInfos, require_parent \in BOOLEAN :
       add_role(rolename, roleinfo, require_parent)
  \/ \E rolename \in TrackNames, roleinfo \in TrackInfos :
       update_roleinfo(rolename, roleinfo)
  \/ \E rolename \in TrackNames : remove_role(rolename)
  \/ clear_roledb
  \/ \E rolename \in TouchNames, value \in BOOLEAN : touch_role(rolename, value)
  \/ clear_unwritten_changes_after_write
  \/ \E rolename_set \in SUBSET TouchNames :
       set_partially_written_rolenames(rolename_set)
  \/ list_changed_rolenames

SpecTrack == Init /\ [][NextTrack]_vars

-----------------------------------------------------------------------------
(* SpecSig: a delegating role 'a' and its delegate 'a/b', with keys,      *)
(* signatures and delegations, under the signing-session queries.          *)

SigNames == {n_a, n_a_b}

Delegation(name, keyids, threshold) ==
  [name |-> name, keyids |-> keyids, threshold |-> threshold]

\* A roleinfo with a 'delegations' field; roles_type tells a list of delegated
\* roles (line 125) from the dict that lines 263 and 422 take it for.
WithDelegations(roleinfo, roles, roles_type) ==
  [delegations |-> [keys |-> EmptyDict, roles |-> roles,
                    roles_type |-> roles_type]] @@ roleinfo

ParentInfos ==
  LET base == RoleInfo({1}, 1, {1}, {1})
  IN  {base, WithDelegations(base, <<>>, "list")}
      \cup {WithDelegations(base, <<Delegation(n_a_b, {k}, 1)>>, roles_type) :
              k \in KeyIds, roles_type \in {"list", "dict"}}

ChildInfos ==
  {RoleInfo(keyids, threshold, signed, signing_keyids) :
     keyids \in {{1}, KeyIds}, threshold \in {1, MaxKeyId},
     signed \in SUBSET KeyIds, signing_keyids \in {{}, KeyIds}}

SigInfos(rolename) == IF rolename = n_a THEN ParentInfos ELSE ChildInfos

NextSig ==
  \/ \E rolename \in SigNames, require_parent \in BOOLEAN :
       \E roleinfo \in SigInfos(rolename) :
         add_role(rolename, roleinfo, require_parent)
  \/ \E rolename \in SigNames :
       \E roleinfo \in SigInfos(rolename) : update_roleinfo(rolename, roleinfo)
  \/ \E rolename \in SigNames, value \in BOOLEAN : touch_role(rolename, value)
  \/ \E rolename \in SigNames \cup {<<>>} : signature_count_on_write(rolename)
  \/ list_incomplete_unchanged_rolenames
  \/ list_changed_rolenames
  \/ clear_unwritten_changes_after_write
  \/ \E rolename_set \in SUBSET SigNames :
       set_partially_written_rolenames(rolename_set)

SpecSig == Init /\ [][NextSig]_vars

-----------------------------------------------------------------------------
(* SpecDiff: updates of the target paths of a role, for the change tracker. *)

DiffNames == {targets, n_a}

\* The lists of target paths a roleinfo is given.
DiffPaths == {<<>>, <<"p">>, <<"q">>, <<"p", "q">>}

DiffInfos == {[paths |-> paths] @@ RoleInfo({1}, 1, {}, {}) : paths \in DiffPaths}

DiffMetadatas ==
  {[roles |-> [rolename \in S |-> RootRole(rolename)],
    version |-> 3, expires |-> "2030-01-01T00:00:00Z"] : S \in SUBSET DiffNames}

NextDiff ==
  \/ \E root_metadata \in DiffMetadatas, track_changes \in BOOLEAN :
       create_roledb_from_root_metadata(root_metadata, track_changes)
  \/ \E rolename \in DiffNames, roleinfo \in DiffInfos, require_parent \in BOOLEAN :
       add_role(rolename, roleinfo, require_parent)
  \/ \E rolename \in DiffNames, roleinfo \in DiffInfos :
       update_roleinfo(rolename, roleinfo)
  \/ \E rolename \in DiffNames, value \in BOOLEAN : touch_role(rolename, value)
  \/ list_changed_rolenames
  \/ clear_unwritten_changes_after_write

SpecDiff == Init /\ [][NextDiff]_vars

-----------------------------------------------------------------------------
(* SpecCopy: a caller that keeps hold of the roleinfo it adds or gets. *)

CopyNames == {n_a, n_a_b}

NextCopy ==
  \/ \E roleinfo \in StoreInfos : new_roleinfo(roleinfo)
  \/ \E rolename \in CopyNames, require_parent \in BOOLEAN :
       add_role_held(rolename, require_parent)
  \/ \E rolename \in CopyNames \cup {<<>>} : get_roleinfo(rolename)
  \/ \E threshold \in 1..MaxKeyId : mutate_held(threshold)
  \/ \E rolename \in CopyNames : remove_role(rolename)

SpecCopy == Init /\ [][NextCopy]_vars

-----------------------------------------------------------------------------
(* SpecQuery: the queries on rolenames, over the stores of Spec. *)

QueryInfos == {RoleInfo({1}, 1, {}, {})}

NextQuery ==
  \/ \E rolename \in StoreNames, roleinfo \in QueryInfos, require_parent \in BOOLEAN :
       add_role(rolename, roleinfo, require_parent)
  \/ \E rolename \in StoreNames : remove_role(rolename)
  \/ \E rolename \in StoreNames : get_parent_rolename(rolename)
  \/ \E rolename \in StoreNames : get_all_parent_roles(rolename)
  \/ \E rolename \in StoreNames : get_delegated_rolenames(rolename)

SpecQuery == Init /\ [][NextQuery]_vars

-----------------------------------------------------------------------------
(* SpecNames: every function that takes a rolename, called with valid and  *)
(* with invalid rolenames.                                                 *)

NameInputs == {n_a, n_a_b} \cup InvalidNames

NamesMetadatas ==
  {[roles |-> [rolename \in S |-> RootRole(rolename)],
    version |-> 3, expires |-> "2030-01-01T00:00:00Z"] :
     S \in SUBSET {n_a, n_a_b, <<"a", "/">>, <<" ", "a">>}}

NextNames ==
  \/ \E root_metadata \in NamesMetadatas, track_changes \in BOOLEAN :
       create_roledb_from_root_metadata(root_metadata, track_changes)
  \/ \E rolename \in NameInputs, roleinfo \in QueryInfos, require_parent \in BOOLEAN :
       add_role(rolename, roleinfo, require_parent)
  \/ \E rolename \in NameInputs, roleinfo \in QueryInfos :
       update_roleinfo(rolename, roleinfo)
  \/ \E rolename \in NameInputs : get_roleinfo(rolename)
  \/ \E rolename \in NameInputs : remove_role(rolename)
  \/ \E rolename \in NameInputs : remove_delegated_roles(rolename)
  \/ \E rolename \in NameInputs : get_parent_rolename(rolename)
  \/ \E rolename \in NameInputs : get_all_parent_roles(rolename)
  \/ \E rolename \in NameInputs : get_delegated_rolenames(rolename)
  \/ \E rolename \in NameInputs : role_exists(rolename)
  \/ clear_roledb

SpecNames == Init /\ [][NextNames]_vars

-----------------------------------------------------------------------------
(* SpecClosed: the store when every add_role asks for the parent. *)

NextClosed ==
  \/ \E rolename \in StoreNames, roleinfo \in StoreInfos :
       add_role(rolename, roleinfo, TRUE)
  \/ \E rolename \in StoreNames, roleinfo \in StoreInfos :
       update_roleinfo(rolename, roleinfo)
  \/ \E rolename \in StoreNames : remove_role(rolename)
  \/ \E rolename \in StoreNames : remove_delegated_roles(rolename)
  \/ clear_roledb

SpecClosed == Init /\ [][NextClosed]_vars

-----------------------------------------------------------------------------
(* The claims. *)

\* The rolename m names a delegate, at any depth, of the rolename n: the
\* '/'-separated segments of n are the first segments of m, and m has more.
IsDelegateOf(m, n) ==
  /\ Len(split(m)) > Len(split(n))
  /\ SubSeq(split(m), 1, Len(split(n))) = split(n)

\* Every hierarchical rolename of the role map has its parent in the map.
ParentClosed(roles) ==
  \A rolename \in DOMAIN roles :
    contains_sep(rolename) => parent_of(rolename) \in DOMAIN roles

RejectionKinds ==
  {"InvalidNameError", "RoleAlreadyExistsError", "UnknownRoleError", "Error"}

\* C1: create_roledb_from_root_metadata is atomic: whatever the database held
\* and whatever the role map, either every role of the map is stored when the
\* call is over, or (a parent is missing from the map) the call raises
\* tuf.Error and the database holds exactly what it held before the call.
C1_BulkLoadAtomic ==
  [][call' = "create_roledb_from_root_metadata" =>
       \A root_metadata \in RootMetadatas, track_changes \in BOOLEAN :
         create_roledb_from_root_metadata(root_metadata, track_changes) =>
           IF ParentClosed(root_metadata.roles)
           THEN exc' = NoExc /\ DOMAIN _roledb_dict' = DOMAIN root_metadata.roles
           ELSE exc' = "Error" /\ _roledb_dict' = _roledb_dict]_vars

\* C2: an add_role, update_roleinfo or remove_role that is rejected with
\* InvalidNameError, RoleAlreadyExistsError, UnknownRoleError or tuf.Error
\* (missing parent) leaves the stored names, every stored roleinfo and the
\* change-tracking state as they were before the call.
C2_RejectedCallChangesNothing ==
  [][(call' \in {"add_role", "update_roleinfo", "remove_role"}
      /\ exc' \in RejectionKinds) => UNCHANGED store]_vars

\* A call was rejected for a missing parent while roles were stored and a
\* change was pending.
C2_Witness ==
  /\ call = "add_role"
  /\ exc = "Error"
  /\ DOMAIN _roledb_dict # {}
  /\ DOMAIN _unwritten_role_changes # {}

\* C3: add_role of a rolename that is stored raises RoleAlreadyExistsError,
\* whether the roleinfo given equals the stored one or not, and the stored
\* roleinfo is not overwritten.
C3_AddExistingRejected ==
  [][call' = "add_role" =>
       \A rolename \in DOMAIN _roledb_dict, roleinfo \in StoreInfos,
          require_parent \in BOOLEAN :
         add_role(rolename, roleinfo, require_parent) =>
           exc' = "RoleAlreadyExistsError" /\ _roledb_dict' = _roledb_dict]_vars

\* A duplicate add was rejected in a database holding both roleinfos, so that
\* the rejection is reached with an equal and with a different roleinfo.
C3_Witness ==
  /\ call = "add_role"
  /\ exc = "RoleAlreadyExistsError"
  /\ \A roleinfo \in StoreInfos :
       \E rolename \in DOMAIN _roledb_dict : _roledb_dict[rolename] = roleinfo

\* C4: add_role('x/y', require_parent=True) raises tuf.Error whenever 'x' is
\* not stored and succeeds once 'x' is stored; with require_parent=False it
\* succeeds with 'x' not stored.
C4_AddRequiresParent ==
  [][call' = "add_role" =>
       \A rolename \in ValidNames, roleinfo \in StoreInfos,
          require_parent \in BOOLEAN :
         (/\ contains_sep(rolename)
          /\ rolename \notin DOMAIN _roledb_dict
          /\ add_role(rolename, roleinfo, require_parent)) =>
           IF require_parent /\ parent_of(rolename) \notin DOMAIN _roledb_dict
           THEN exc' = "Error" /\ _roledb_dict' = _roledb_dict
           ELSE /\ exc' = NoExc
                /\ _roledb_dict' = Put(_roledb_dict, rolename, roleinfo)]_vars

\* C5: remove_role of a stored rolename deletes that role and every stored
\* delegate of it, at any depth, and nothing else: every other role, siblings
\* and roles that share only a literal prefix with it included, stays stored
\* with its roleinfo unchanged.
C5_RemoveCascades ==
  [][call' = "remove_role" =>
       \A rolename \in DOMAIN _roledb_dict :
         remove_role(rolename) =>
           /\ exc' = NoExc
           /\ DOMAIN _roledb_dict' =
                {name \in DOMAIN _roledb_dict :
                   name # rolename /\ ~IsDelegateOf(name, rolename)}
           /\ \A name \in DOMAIN _roledb_dict' :
                _roledb_dict'[name] = _roledb_dict[name]]_vars

\* 'a/b' was removed and 'a', its sibling 'a/c' and 'a/bc' are what is left.
C5_Witness ==
  /\ call = "remove_role"
  /\ exc = NoExc
  /\ DOMAIN _roledb_dict = {n_a, n_a_c, n_a_bc}

\* C6: after an update_roleinfo on a database whose bulk load asked for change
\* tracking, list_changed_rolenames() includes the updated role; after
\* clear_unwritten_changes_after_write() it is empty.
C6_UpdateIsTracked ==
  [][/\ (call' = "update_roleinfo" /\ requested_track_changes) =>
          \A rolename \in DOMAIN _roledb_dict, roleinfo \in TrackInfos :
            update_roleinfo(rolename, roleinfo) =>
              exc' = NoExc /\ rolename \in DOMAIN _unwritten_role_changes'
     /\ call' = "clear_unwritten_changes_after_write" =>
          DOMAIN _unwritten_role_changes' = {}]_vars

\* C7: after clear_roledb(), get_rolenames() is empty, no role has a pending
\* change and no role is marked partially written.
C7_ClearResetsEverything ==
  call = "clear_roledb" =>
    /\ DOMAIN _roledb_dict = {}
    /\ DOMAIN _unwritten_role_changes = {}
    /\ _partially_written_rolenames = {}

\* The signatures of a role that count: those made by a key the role
\* authorizes now.
ValidSignedKeyids(roleinfo) ==
  signed_keyids_of(roleinfo.signatures) \cap roleinfo.keyids

IsFullySigned(roleinfo) ==
  Cardinality(ValidSignedKeyids(roleinfo)) >= roleinfo.threshold

\* C8: signature_count_on_write(rolename) returns the number of signing keyids
\* of a role that has a pending change, and 0 for a role with no pending
\* change whose valid signatures meet its threshold.
C8_NeededSignatureCount ==
  [][call' = "signature_count_on_write" =>
       \A rolename \in DOMAIN _roledb_dict :
         signature_count_on_write(rolename) =>
           LET roleinfo == _roledb_dict[rolename]
           IN  /\ rolename \in DOMAIN _unwritten_role_changes =>
                    /\ exc' = NoExc
                    /\ ret' = Cardinality(roleinfo.signing_keyids)
               /\ (rolename \notin DOMAIN _unwritten_role_changes
                   /\ IsFullySigned(roleinfo)) =>
                    exc' = NoExc /\ ret' = 0]_vars

\* C9: for a role with no pending change whose valid signatures are fewer than
\* its threshold, signature_count_on_write(rolename) returns the number of
\* signing keyids that are not among the keyids of its valid signatures.
C9_IncrementalSignatureCount ==
  [][call' = "signature_count_on_write" =>
       \A rolename \in DOMAIN _roledb_dict :
         (/\ signature_count_on_write(rolename)
          /\ rolename \notin DOMAIN _unwritten_role_changes
          /\ ~IsFullySigned(_roledb_dict[rolename])) =>
           /\ exc' = NoExc
           /\ ret' = Cardinality(_roledb_dict[rolename].signing_keyids
                                   \ ValidSignedKeyids(_roledb_dict[rolename]))]_vars

\* The delegations a stored role makes, as far as it has any.
DelegationsOf(db, rolename) ==
  IF "delegations" \in DOMAIN db[rolename]
  THEN {db[rolename].delegations.roles[i] :
          i \in DOMAIN db[rolename].delegations.roles}
  ELSE {}

\* C10: only signatures by keys authorized now count towards the threshold.
\* A role with no pending change that carries a signature by a key it does not
\* authorize is counted by signature_count_on_write as fully signed (0 needed)
\* exactly when its signatures by authorized keys meet its threshold; and
\* list_incomplete_unchanged_rolenames reports every unchanged delegate of a
\* changed parent whose signatures by the delegation's keyids are fewer than
\* the delegation's threshold.
C10_OnlyAuthorizedSignaturesCount ==
  [][/\ call' = "signature_count_on_write" =>
          \A rolename \in DOMAIN _roledb_dict :
            (/\ signature_count_on_write(rolename)
             /\ rolename \notin DOMAIN _unwritten_role_changes
             /\ signed_keyids_of(_roledb_dict[rolename].signatures)
                   \ _roledb_dict[rolename].keyids # {}) =>
              /\ exc' = NoExc
              /\ ret' = IF IsFullySigned(_roledb_dict[rolename]) THEN 0
                        ELSE Cardinality(_roledb_dict[rolename].signing_keyids
                                   \ ValidSignedKeyids(_roledb_dict[rolename]))
     /\ (call' = "list_incomplete_unchanged_rolenames"
         /\ list_incomplete_unchanged_rolenames) =>
          \A parent_rolename \in DOMAIN _unwritten_role_changes
                                   \cap DOMAIN _roledb_dict :
            \A delegation \in DelegationsOf(_roledb_dict, parent_rolename) :
              (/\ delegation.name \in DOMAIN _roledb_dict
               /\ delegation.name \notin DOMAIN _unwritten_role_changes
               /\ Cardinality(delegation.keyids \cap signed_keyids_of(
                     _roledb_dict[delegation.name].signatures))
                    < delegation.threshold) =>
                /\ exc' = NoExc
                /\ \E i \in DOMAIN ret' : ret'[i] = delegation.name]_vars

\* What a roleinfo says apart from the signatures made over it.
ContentOf(roleinfo) ==
  [field \in DOMAIN roleinfo \ {"signatures", "signing_keyids"} |->
     roleinfo[field]]

\* The rolenames list_incomplete_unchanged_rolenames() can return in this state.
ReportedIncomplete ==
  UNION {LET out == list_incomplete_unchanged_rolenames_outcome(debug,
                      _track_changes, _roledb_dict, _unwritten_role_changes,
                      _partially_written_rolenames, order)
         IN  IF out.exc = NoExc THEN {out.ret[i] : i \in DOMAIN out.ret} ELSE {}
         : order \in Orders(DOMAIN _unwritten_role_changes)}

\* The role is reported as needing signatures.
NeedsSignatures(rolename) ==
  \/ rolename \in DOMAIN _unwritten_role_changes
  \/ rolename \in ReportedIncomplete

\* C11: a role whose content is changed by update_roleinfo is, when the call
\* is over, reported as needing signatures (by list_changed_rolenames() or by
\* list_incomplete_unchanged_rolenames()), whatever signatures it carries; and
\* so is every stored role whose delegation (keyids, threshold) is made or
\* changed by an update of its parent.
C11_ChangeVoidsSignatures ==
  [][call' = "update_roleinfo" =>
       \A rolename \in DOMAIN _roledb_dict :
         \A roleinfo \in SigInfos(rolename) :
           update_roleinfo(rolename, roleinfo) =>
             /\ ContentOf(roleinfo) # ContentOf(_roledb_dict[rolename]) =>
                  NeedsSignatures(rolename)'
             /\ \A delegation \in DelegationsOf(_roledb_dict', rolename) :
                  (/\ delegation.name \in DOMAIN _roledb_dict
                   /\ delegation \notin DelegationsOf(_roledb_dict, rolename)) =>
                    NeedsSignatures(delegation.name)']_vars

\* What list_incomplete_unchanged_rolenames() is to return: the roles marked
\* partially written that have no pending change, and the stored roles with no
\* pending change that a changed parent's delegation leaves with fewer valid
\* signatures than the delegation's threshold.
ExpectedIncomplete ==
  {rolename \in _partially_written_rolenames :
     rolename \notin DOMAIN _unwritten_role_changes}
  \cup
  {name \in DOMAIN _roledb_dict \ DOMAIN _unwritten_role_changes :
     \E parent_rolename \in DOMAIN _unwritten_role_changes \cap DOMAIN _roledb_dict :
       \E delegation \in DelegationsOf(_roledb_dict, parent_rolename) :
         /\ delegation.name = name
         /\ Cardinality(delegation.keyids
                          \cap signed_keyids_of(_roledb_dict[name].signatures))
              < delegation.threshold}

\* C12: list_incomplete_unchanged_rolenames() returns exactly the roles of
\* ExpectedIncomplete, none of them with a pending change and none of them
\* twice.
C12_IncompleteUnchangedExact ==
  [][(call' = "list_incomplete_unchanged_rolenames"
      /\ list_incomplete_unchanged_rolenames) =>
       /\ exc' = NoExc
       /\ {ret'[i] : i \in DOMAIN ret'} = ExpectedIncomplete
       /\ \A i, j \in DOMAIN ret' : ret'[i] = ret'[j] => i = j
       /\ \A i \in DOMAIN ret' : ret'[i] \notin DOMAIN _unwritten_role_changes]_vars

\* C13: the roles a write leaves short of signatures, handed to
\* set_partially_written_rolenames, are marked partially written; a marked
\* role with no pending change is returned by
\* list_incomplete_unchanged_rolenames(); and a role loses the mark by a call
\* of set_partially_written_rolenames only.
C13_PartiallyWrittenIsRecorded ==
  [][/\ call' = "set_partially_written_rolenames" =>
          \A rolename_set \in SUBSET SigNames :
            set_partially_written_rolenames(rolename_set) =>
              \A rolename \in rolename_set :
                rolename \in _partially_written_rolenames'
     /\ (call' = "list_incomplete_unchanged_rolenames"
         /\ list_incomplete_unchanged_rolenames) =>
          \A rolename \in _partially_written_rolenames
                            \ DOMAIN _unwritten_role_changes :
            /\ exc' = NoExc
            /\ \E i \in DOMAIN ret' : ret'[i] = rolename
     /\ \A rolename \in _partially_written_rolenames :
          rolename \notin _partially_written_rolenames' =>
            call' = "set_partially_written_rolenames"]_vars

\* The changes entry of a role that was touched and nothing else.
TouchedOnly == [_generate_role_changes_entry(FALSE) EXCEPT !.touched = TRUE]

\* C14: touch_role(rolename, False) on a role whose pending change is a touch
\* and nothing else takes the role out of list_changed_rolenames().
C14_UntouchRemoves ==
  [][call' = "touch_role" =>
       \A rolename \in DOMAIN _unwritten_role_changes :
         (/\ _unwritten_role_changes[rolename] = TouchedOnly
          /\ touch_role(rolename, FALSE)) =>
           /\ exc' = NoExc
           /\ rolename \notin DOMAIN _unwritten_role_changes']_vars

\* C15: touch_role(rolename, True) on a database loaded with change tracking
\* asked for puts the role in list_changed_rolenames(), keeps whatever the
\* role's changes entry recorded before, changes nothing else, and a second
\* touch_role(rolename, True) changes nothing at all.
C15_TouchIsIdempotent ==
  [][(call' = "touch_role" /\ requested_track_changes) =>
       \A rolename \in TouchNames :
         touch_role(rolename, TRUE) =>
           /\ exc' = NoExc
           /\ rolename \in DOMAIN _unwritten_role_changes'
           /\ _unwritten_role_changes'[rolename] =
                IF rolename \in DOMAIN _unwritten_role_changes
                THEN [_unwritten_role_changes[rolename] EXCEPT !.touched = TRUE]
                ELSE TouchedOnly
           /\ \A name \in DOMAIN _unwritten_role_changes \ {rolename} :
                /\ name \in DOMAIN _unwritten_role_changes'
                /\ _unwritten_role_changes'[name] = _unwritten_role_changes[name]
           /\ UNCHANGED <<_roledb_dict, _partially_written_rolenames>>
           /\ touch_role_outcome(debug, _track_changes, _unwritten_role_changes',
                                 rolename, TRUE).changes
                = _unwritten_role_changes']_vars

\* The members of a list.
Items(list) == {list[i] : i \in DOMAIN list}

\* The target paths of a roleinfo.
PathsOf(roleinfo) ==
  IF "paths" \in DOMAIN roleinfo THEN Items(roleinfo.paths) ELSE {}

\* The paths recorded as added to, and as removed from, a role since the last
\* write.
DiffAdded(changes, rolename) ==
  IF rolename \in DOMAIN changes THEN Items(changes[rolename].targets_added)
  ELSE {}

DiffRemoved(changes, rolename) ==
  IF rolename \in DOMAIN changes THEN Items(changes[rolename].targets_removed)
  ELSE {}

\* The paths the role had at the last write, by its paths now and its diff.
WrittenPaths(changes, db, rolename) ==
  (PathsOf(db[rolename]) \ DiffAdded(changes, rolename))
    \cup DiffRemoved(changes, rolename)

\* C16: the diff update_roleinfo keeps for a role, on a database loaded with
\* change tracking asked for, is the net diff against the last write: after
\* every update the paths recorded as added are those the role has now and
\* had not at the last write, the paths recorded as removed are those it had
\* then and has not now, no path is recorded twice, and a role that was only
\* updated and has the paths of the last write again has no pending change.
C16_DiffIsNet ==
  [][(call' = "update_roleinfo" /\ requested_track_changes) =>
       \A rolename \in DOMAIN _roledb_dict, roleinfo \in DiffInfos :
         update_roleinfo(rolename, roleinfo) =>
           LET written == WrittenPaths(_unwritten_role_changes, _roledb_dict,
                                       rolename)
               marked == /\ rolename \in DOMAIN _unwritten_role_changes
                         /\ \/ _unwritten_role_changes[rolename].created
                            \/ _unwritten_role_changes[rolename].touched
           IN  /\ exc' = NoExc
               /\ DiffAdded(_unwritten_role_changes', rolename)
                    = PathsOf(roleinfo) \ written
               /\ DiffRemoved(_unwritten_role_changes', rolename)
                    = written \ PathsOf(roleinfo)
               /\ rolename \in DOMAIN _unwritten_role_changes' =>
                    LET entry == _unwritten_role_changes'[rolename]
                    IN  /\ Len(entry.targets_added)
                             = Cardinality(Items(entry.targets_added))
                        /\ Len(entry.targets_removed)
                             = Cardinality(Items(entry.targets_removed))
               /\ (PathsOf(roleinfo) = written /\ ~marked) =>
                    rolename \notin DOMAIN _unwritten_role_changes']_vars

\* C17: get_roleinfo(rolename) after add_role(rolename, r) returns a value
\* equal to r, and an assignment to a field of the object the caller holds,
\* be it the r it added or the object get_roleinfo returned, changes no
\* stored roleinfo, so that a later get_roleinfo returns what it returned
\* before.
C17_StoreHoldsCopies ==
  [][/\ call' = "add_role" =>
          \A rolename \in CopyNames, require_parent \in BOOLEAN :
            (/\ add_role_held(rolename, require_parent)
             /\ rolename \in DOMAIN _roledb_dict' \ DOMAIN _roledb_dict) =>
              /\ get_roleinfo_outcome(_roledb_dict', held', rolename).exc = NoExc
              /\ get_roleinfo_outcome(_roledb_dict', held', rolename).ret.value
                   = held[1].value
     /\ call' = "get_roleinfo" =>
          \A rolename \in DOMAIN _roledb_dict :
            get_roleinfo(rolename) =>
              /\ exc' = NoExc
              /\ ret' = _roledb_dict[rolename]
              /\ held'[1].value = _roledb_dict[rolename]
              /\ UNCHANGED store
     /\ call' = "mutate_held" =>
          \A rolename \in DOMAIN _roledb_dict :
            /\ rolename \in DOMAIN _roledb_dict'
            /\ get_roleinfo_outcome(_roledb_dict', held', rolename).ret.value
                 = get_roleinfo_outcome(_roledb_dict, held, rolename).ret.value]_vars

\* The caller has changed the threshold of the roleinfo it holds, and 'a' and
\* 'a/b' are stored with the roleinfo the caller's object was before.
C17_Witness ==
  /\ call = "mutate_held"
  /\ DOMAIN _roledb_dict = CopyNames
  /\ \A rolename \in CopyNames :
       /\ _roledb_dict[rolename] # held[1].value
       /\ [_roledb_dict[rolename] EXCEPT !.threshold = held[1].value.threshold]
            = held[1].value

\* C18: after create_roledb_from_root_metadata(root_metadata) with a role map
\* that lacks no parent, the stored rolenames are those of the role map, each
\* stored role has the keyids and the threshold the map declares for it and
\* no signatures and no signing keyids, 'root' has the version and the
\* expiration of root_metadata, and the roles named 'targets...' have empty
\* paths and empty delegations.
C18_BulkLoadResult ==
  [][call' = "create_roledb_from_root_metadata" =>
       \A root_metadata \in RootMetadatas, track_changes \in BOOLEAN :
         (/\ create_roledb_from_root_metadata(root_metadata, track_changes)
          /\ ParentClosed(root_metadata.roles)) =>
           /\ DOMAIN _roledb_dict' = DOMAIN root_metadata.roles
           /\ \A rolename \in DOMAIN _roledb_dict' :
                LET roleinfo == _roledb_dict'[rolename]
                IN  /\ roleinfo.keyids = root_metadata.roles[rolename].keyids
                    /\ roleinfo.threshold = root_metadata.roles[rolename].threshold
                    /\ roleinfo.signatures = <<>>
                    /\ roleinfo.signing_keyids = {}
                    /\ rolename = root =>
                         /\ roleinfo.version = root_metadata.version
                         /\ roleinfo.expires = root_metadata.expires
                    /\ startswith(rolename, targets) =>
                         /\ roleinfo.paths = EmptyDict
                         /\ roleinfo.delegations.keys = EmptyDict
                         /\ roleinfo.delegations.roles = <<>>]_vars

\* C19: get_delegated_rolenames(rolename) of a stored rolename returns the
\* stored delegates of it, at every depth, and no other name: not the
\* rolename itself and no name that only begins with the same characters;
\* and it changes nothing.
C19_DescendantsExact ==
  [][call' = "get_delegated_rolenames" =>
       \A rolename \in DOMAIN _roledb_dict :
         get_delegated_rolenames(rolename) =>
           /\ exc' = NoExc
           /\ ret' = {name \in DOMAIN _roledb_dict : IsDelegateOf(name, rolename)}
           /\ rolename \notin ret'
           /\ UNCHANGED store]_vars

\* get_delegated_rolenames('a/b') returned 'a/b/c' and 'a/b/c/d' with 'a',
\* 'a/b' and 'a/bc' stored as well.
C19_Witness ==
  /\ call = "get_delegated_rolenames"
  /\ exc = NoExc
  /\ ret = {n_a_b_c, n_a_b_c_d}
  /\ DOMAIN _roledb_dict = {n_a, n_a_b, n_a_bc, n_a_b_c, n_a_b_c_d}

\* The places of the '/' in a rolename.
SepPlaces(rolename) == {i \in 1..Len(rolename) : rolename[i] = SEP}

\* The rolename without its last '/'-segment; '' if it has one segment only.
WithoutLastSegment(rolename) ==
  IF SepPlaces(rolename) = {} THEN <<>>
  ELSE LET last == CHOOSE i \in SepPlaces(rolename) :
                     \A j \in SepPlaces(rolename) : j <= i
       IN  SubSeq(rolename, 1, last - 1)

\* The proper ancestors of a rolename, the outermost first: what stands
\* before its first '/', before its second '/', and so on.
ProperAncestors(rolename) ==
  [k \in 1..Cardinality(SepPlaces(rolename)) |->
     LET place == CHOOSE i \in SepPlaces(rolename) :
                    Cardinality({j \in SepPlaces(rolename) : j < i}) = k - 1
     IN  SubSeq(rolename, 1, place - 1)]

\* C20: for a stored rolename, get_parent_rolename returns the rolename
\* without its last '/'-segment ('' for a name of one segment), and
\* get_all_parent_roles returns its proper ancestors from the outermost to
\* the innermost ([rolename] for a name of one segment), the last of them
\* being what get_parent_rolename returns.
C20_ParentAndAncestors ==
  [][/\ call' = "get_parent_rolename" =>
          \A rolename \in DOMAIN _roledb_dict :
            get_parent_rolename(rolename) =>
              exc' = NoExc /\ ret' = WithoutLastSegment(rolename)
     /\ call' = "get_all_parent_roles" =>
          \A rolename \in DOMAIN _roledb_dict :
            get_all_parent_roles(rolename) =>
              /\ exc' = NoExc
              /\ ret' = IF contains_sep(rolename) THEN ProperAncestors(rolename)
                        ELSE <<rolename>>
              /\ contains_sep(rolename) =>
                   ret'[Len(ret')]
                     = get_parent_rolename_outcome(_roledb_dict, rolename).ret]_vars

\* get_all_parent_roles('a/b/c/d') returned ['a', 'a/b', 'a/b/c'].
C20_Witness ==
  /\ call = "get_all_parent_roles"
  /\ exc = NoExc
  /\ ret = <<n_a, n_a_b, n_a_b_c>>
  /\ n_a_b_c_d \in DOMAIN _roledb_dict

\* A rolename that is not empty and neither begins nor ends with whitespace
\* or with '/'.
IsValidName(rolename) ==
  /\ Len(rolename) > 0
  /\ rolename[1] \notin Whitespace \cup {SEP}
  /\ rolename[Len(rolename)] \notin Whitespace \cup {SEP}

\* A call of one of the functions that take a rolename, with this rolename.
CalledWith(rolename) ==
  \/ \E roleinfo \in QueryInfos, require_parent \in BOOLEAN :
       add_role(rolename, roleinfo, require_parent)
  \/ \E roleinfo \in QueryInfos : update_roleinfo(rolename, roleinfo)
  \/ get_roleinfo(rolename)
  \/ remove_role(rolename)
  \/ get_parent_rolename(rolename)
  \/ get_all_parent_roles(rolename)
  \/ get_delegated_rolenames(rolename)
  \/ role_exists(rolename)

\* C21: whatever is called (add_role with either require_parent, the bulk
\* load, update_roleinfo, remove_role, clear_roledb, the queries), every
\* rolename stored afterwards is valid; and add_role, update_roleinfo,
\* get_roleinfo, remove_role, get_parent_rolename, get_all_parent_roles,
\* get_delegated_rolenames and role_exists, called with a rolename that is not
\* valid, raise InvalidNameError and leave the database as it was.
C21_StoredNamesAreValid ==
  [][/\ \A rolename \in DOMAIN _roledb_dict' : IsValidName(rolename)
     /\ \A rolename \in NameInputs :
          (~IsValidName(rolename) /\ CalledWith(rolename)) =>
            exc' = "InvalidNameError" /\ UNCHANGED store]_vars

\* A call was turned down for its rolename while 'a' and 'a/b' were stored.
C21_Witness ==
  /\ exc = "InvalidNameError"
  /\ call \in {"add_role", "update_roleinfo", "get_roleinfo", "remove_role",
               "get_parent_rolename", "get_all_parent_roles",
               "get_delegated_rolenames", "role_exists"}
  /\ DOMAIN _roledb_dict = {n_a, n_a_b}

\* C22: from the empty database, under add_role with require_parent=True,
\* update_roleinfo, remove_role, remove_delegated_roles and clear_roledb,
\* every stored rolename with a '/' in it has its parent stored.
C22_StoreIsParentClosed ==
  \A rolename \in DOMAIN _roledb_dict :
    contains_sep(rolename) => WithoutLastSegment(rolename) \in DOMAIN _roledb_dict

\* A role was removed and 'a' and its delegate 'a/c' are what is left.
C22_Witness ==
  /\ call = "remove_role"
  /\ exc = NoExc
  /\ DOMAIN _roledb_dict = {n_a, n_a_c}

\* Every rolename with a pending change and every rolename marked partially
\* written is stored.
TrackedAreStored ==
  /\ DOMAIN _unwritten_role_changes \subseteq DOMAIN _roledb_dict
  /\ _partially_written_rolenames \subseteq DOMAIN _roledb_dict

\* C23: the pending changes and the partially written marks refer to stored
\* roles only, and no call takes that away: after remove_role in particular
\* (and after any other call, a touch_role of a rolename that is not stored
\* set aside) neither the role removed nor a delegate removed with it has a
\* pending change.
C23_TrackingRefersToStoredRoles ==
  [][(/\ TrackedAreStored
      /\ ~ \E rolename \in TouchNames \ DOMAIN _roledb_dict, value \in BOOLEAN :
             touch_role(rolename, value)) =>
       TrackedAreStored']_vars

\* C24: on a database whose bulk load did not ask for change tracking,
\* add_role, update_roleinfo, remove_role and the bulk load leave the pending
\* changes and the partially written marks as they were, so that
\* list_changed_rolenames() stays empty; on one whose bulk load asked for it,
\* a role that add_role has stored is in list_changed_rolenames(), with
\* 'created' set, when the call is over.
C24_TrackingFollowsTheSwitch ==
  [][/\ (/\ call' \in {"add_role", "update_roleinfo", "remove_role",
                       "create_roledb_from_root_metadata"}
         /\ ~requested_track_changes') =>
          UNCHANGED <<_unwritten_role_changes, _partially_written_rolenames>>
     /\ (call' = "add_role" /\ requested_track_changes) =>
          \A rolename \in DOMAIN _roledb_dict' \ DOMAIN _roledb_dict :
            /\ rolename \in DOMAIN _unwritten_role_changes'
            /\ _unwritten_role_changes'[rolename].created]_vars

====
